---- MODULE Spec2Model ----
(***************************************************************************)
(* Model of src/proxy/proxy.py: the POST /v1/messages handler of the       *)
(* GLM-5 router (tier detection, compatibility bypass, circuit breaker,    *)
(* per-tier semaphore, retry loop, fallback to Anthropic).                 *)
(*                                                                         *)
(* Vocabulary: "secondary" is Z.AI (is_zai_route), "primary" is Anthropic. *)
(* One action is one run of the handler between two suspension points      *)
(* (await) of the asyncio event loop.                                      *)
(***************************************************************************)
EXTENDS Integers, Sequences, FiniteSets, TLC

(***************************************************************************)
(* Bounds of the model and configuration values.                           *)
(***************************************************************************)
\* MAX_RETRIES (env, default 3): attempts of the retry loop
MAX_RETRIES == 2
\* CircuitBreaker.threshold (env CIRCUIT_BREAKER_THRESHOLD, default 5)
Threshold == 2
\* CircuitBreaker.recovery_time (env CIRCUIT_BREAKER_RECOVERY, default 120)
RecoveryTime == 1
\* MAX_CONCURRENT_REQUESTS (env, default 5): slots of each tier's semaphore
MAX_CONCURRENT_REQUESTS == 1
\* the clock time.time() is observed in 0..MaxTime
MaxTime == 1
\* chunks of one streamed response the model follows
MaxChunks == 2
\* pieces a model name is made of
MaxPieces == 3

Tiers == {"haiku", "sonnet", "opus"}
\* Python's None, for a tier
NoTier == "none"

(***************************************************************************)
(* Strings the code inspects character by character are tuples of          *)
(* one-character strings.                                                  *)
(***************************************************************************)
S_opus == <<"o", "p", "u", "s">>
S_sonnet == <<"s", "o", "n", "n", "e", "t">>
S_haiku == <<"h", "a", "i", "k", "u">>
S_glm == <<"g", "l", "m">>

\* str.lower() on the characters the model draws names from
LowerChar(c) ==
    CASE c = "O" -> "o"
      [] c = "S" -> "s"
      [] c = "H" -> "h"
      [] c = "G" -> "g"
      [] c = "P" -> "p"
      [] c = "U" -> "u"
      [] c = "L" -> "l"
      [] c = "M" -> "m"
      [] OTHER -> c

Lower(s) == [i \in 1..Len(s) |-> LowerChar(s[i])]

\* Python's `sub in s` on strings
Contains(sub, s) ==
    \E i \in 0..(Len(s) - Len(sub)) : SubSeq(s, i + 1, i + Len(sub)) = sub

\* Python's s.startswith(pre)
StartsWith(s, pre) == Len(s) >= Len(pre) /\ SubSeq(s, 1, Len(pre)) = pre

\* _detect_tier testing "sonnet" before "opus"
detect_tier_sonnet_first(model_name) ==
    LET m == Lower(model_name) IN
    IF Contains(S_sonnet, m) THEN "sonnet"
    ELSE IF Contains(S_opus, m) THEN "opus"
    ELSE IF Contains(S_haiku, m) THEN "haiku"
    ELSE IF StartsWith(m, S_glm) THEN "sonnet"
    ELSE NoTier

\* _detect_tier(model_name)
detect_tier(model_name) ==
    LET m == Lower(model_name) IN
    IF Contains(S_opus, m) THEN "opus"
    ELSE IF Contains(S_sonnet, m) THEN "sonnet"
    ELSE IF Contains(S_haiku, m) THEN "haiku"
    ELSE IF StartsWith(m, S_glm) THEN "sonnet"
    ELSE NoTier

(***************************************************************************)
(* Python dicts are functions on their keys.                               *)
(***************************************************************************)
Has(d, k) == k \in DOMAIN d
Put(d, k, v) == [x \in (DOMAIN d) \cup {k} |-> IF x = k THEN v ELSE d[x]]
Pop(d, k) == [x \in (DOMAIN d) \ {k} |-> d[x]]
Get(d, k, default) == IF k \in DOMAIN d THEN d[k] ELSE default
EmptyDict == [x \in {} |-> 0]

(***************************************************************************)
(* CircuitBreaker: cb is [failures, opened_at], both dicts keyed by tier.  *)
(***************************************************************************)
\* is_open reporting closed one time unit before recovery_time has elapsed
is_open_ret_early(cb, tier, t) ==
    IF ~Has(cb.opened_at, tier) THEN FALSE
    ELSE IF t - cb.opened_at[tier] >= RecoveryTime - 1 THEN FALSE
    ELSE TRUE

\* the value is_open(tier) returns at time t
is_open_ret(cb, tier, t) ==
    IF ~Has(cb.opened_at, tier) THEN FALSE
    ELSE IF t - cb.opened_at[tier] >= RecoveryTime THEN FALSE
    ELSE TRUE

\* is_open closing the circuit without self._failures[tier] = 0
is_open_cb_keeps_count(cb, tier, t) ==
    IF ~Has(cb.opened_at, tier) THEN cb
    ELSE IF t - cb.opened_at[tier] >= RecoveryTime
         THEN [failures |-> cb.failures, opened_at |-> Pop(cb.opened_at, tier)]
         ELSE cb

\* is_open setting the count to 0 whenever it reports closed
is_open_cb_forgets(cb, tier, t) ==
    IF ~Has(cb.opened_at, tier)
    THEN [failures |-> Put(cb.failures, tier, 0), opened_at |-> cb.opened_at]
    ELSE IF t - cb.opened_at[tier] >= RecoveryTime
         THEN [failures |-> Put(cb.failures, tier, 0),
               opened_at |-> Pop(cb.opened_at, tier)]
         ELSE cb

\* the breaker after is_open(tier) at time t
is_open_cb(cb, tier, t) ==
    IF ~Has(cb.opened_at, tier) THEN cb
    ELSE IF t - cb.opened_at[tier] >= RecoveryTime
         THEN [failures |-> Put(cb.failures, tier, 0),
               opened_at |-> Pop(cb.opened_at, tier)]
         ELSE cb

\* record_failure without `tier not in self._opened_at`: every failure at or
\* above the threshold stamps opened_at again
record_failure_restamps(cb, tier, t) ==
    LET f == Put(cb.failures, tier, Get(cb.failures, tier, 0) + 1) IN
    [failures |-> f,
     opened_at |-> IF f[tier] >= Threshold
                   THEN Put(cb.opened_at, tier, t)
                   ELSE cb.opened_at]

\* record_failure opening one failure late: > threshold for >=
record_failure_late(cb, tier, t) ==
    LET f == Put(cb.failures, tier, Get(cb.failures, tier, 0) + 1) IN
    [failures |-> f,
     opened_at |-> IF f[tier] > Threshold /\ ~Has(cb.opened_at, tier)
                   THEN Put(cb.opened_at, tier, t)
                   ELSE cb.opened_at]

\* the breaker after record_failure(tier) at time t
record_failure(cb, tier, t) ==
    LET f == Put(cb.failures, tier, Get(cb.failures, tier, 0) + 1) IN
    [failures |-> f,
     opened_at |-> IF f[tier] >= Threshold /\ ~Has(cb.opened_at, tier)
                   THEN Put(cb.opened_at, tier, t)
                   ELSE cb.opened_at]

\* record_success without `del self._opened_at[tier]`
record_success_keeps_open(cb, tier) ==
    [failures |-> IF Has(cb.failures, tier) THEN Put(cb.failures, tier, 0)
                  ELSE cb.failures,
     opened_at |-> cb.opened_at]

\* the breaker after record_success(tier)
record_success(cb, tier) ==
    [failures |-> IF Has(cb.failures, tier) THEN Put(cb.failures, tier, 0)
                  ELSE cb.failures,
     opened_at |-> IF Has(cb.opened_at, tier) THEN Pop(cb.opened_at, tier)
                   ELSE cb.opened_at]

(***************************************************************************)
(* Request payloads.  A JSON object is a function on its keys, a JSON      *)
(* array a tuple.  A value the code tests with isinstance is tagged with   *)
(* its Python type: [py |-> "list" | "dict" | "str", v |-> value].         *)
(***************************************************************************)
PyList(items) == [py |-> "list", v |-> items]
PyDict(d) == [py |-> "dict", v |-> d]
PyStr(s) == [py |-> "str", v |-> s]

\* the tool types of the model whose text starts with "web_search"
WebSearchToolTypes == {"web_search", "web_search_20250305"}

\* str(tool.get("type", "")).startswith("web_search")
is_web_search_tool(tool) == Get(tool, "type", "") \in WebSearchToolTypes

\* the filter removing only the first web-search tool of the list
without_first_web_search(tools) ==
    IF \E i \in 1..Len(tools) : is_web_search_tool(tools[i])
    THEN LET i == CHOOSE k \in 1..Len(tools) :
                      /\ is_web_search_tool(tools[k])
                      /\ \A j \in 1..(k - 1) : ~is_web_search_tool(tools[j])
         IN SubSeq(tools, 1, i - 1) \o SubSeq(tools, i + 1, Len(tools))
    ELSE tools

\* [t for t in tools if not (... startswith("web_search"))]
RECURSIVE without_web_search(_)
without_web_search(tools) ==
    IF tools = <<>> THEN <<>>
    ELSE IF is_web_search_tool(Head(tools)) THEN without_web_search(Tail(tools))
    ELSE <<Head(tools)>> \o without_web_search(Tail(tools))

\* _has_web_search(data)
has_web_search(data) ==
    LET tools == Get(data, "tools", <<>>) IN
    \E i \in 1..Len(tools) : is_web_search_tool(tools[i])

\* one content block of _has_image_content
block_is_image(block) ==
    \/ Get(block, "type", "") \in {"image", "image_url"}
    \/ Get(Get(block, "source", EmptyDict), "type", "") \in {"base64", "url"}

\* _has_image_content(data)
has_image_content(data) ==
    LET msgs == Get(data, "messages", <<>>) IN
    \E i \in 1..Len(msgs) :
        /\ Has(msgs[i], "content")
        /\ msgs[i]["content"].py = "list"
        /\ \E j \in 1..Len(msgs[i]["content"].v) :
               block_is_image(msgs[i]["content"].v[j])

\* _has_forced_tool_choice(data)
has_forced_tool_choice(data) ==
    IF ~Has(data, "tool_choice") THEN FALSE
    ELSE LET tc == data["tool_choice"] IN
         IF tc.py = "dict" THEN Get(tc.v, "type", "") \notin {"auto", ""}
         ELSE IF tc.py = "str" THEN tc.v \notin {"auto", ""}
         ELSE FALSE

\* bypass_reason without the forced_tool_choice branch
bypass_reason_no_forced(data) ==
    IF has_web_search(data) THEN "web_search"
    ELSE IF has_image_content(data) THEN "vision/image"
    ELSE "none"

\* bypass_reason without the web_search branch
bypass_reason_no_web_search(data) ==
    IF has_image_content(data) THEN "vision/image"
    ELSE IF has_forced_tool_choice(data) THEN "forced_tool_choice"
    ELSE "none"

\* bypass_reason of proxy_messages (None is "none")
bypass_reason(data) ==
    IF has_web_search(data) THEN "web_search"
    ELSE IF has_image_content(data) THEN "vision/image"
    ELSE IF has_forced_tool_choice(data) THEN "forced_tool_choice"
    ELSE "none"

\* the top-level keys sanitize_for_zai removes
UnsupportedKeys ==
    {"metadata", "prompt_caching", "service_tier", "context_management",
     "output_config"}

PopAll(d, keys) == [x \in (DOMAIN d) \ keys |-> d[x]]

\* block.pop("cache_control") when present
strip_cc(block) == Pop(block, "cache_control")

\* _strip_cache_control(data): system, messages and their blocks, tools
strip_cache_control(data) ==
    LET d1 == IF ~Has(data, "system") THEN data
              ELSE LET sys == data["system"] IN
                   IF sys.py = "list"
                   THEN Put(data, "system",
                            PyList([i \in 1..Len(sys.v) |-> strip_cc(sys.v[i])]))
                   ELSE IF sys.py = "dict"
                   THEN Put(data, "system", PyDict(strip_cc(sys.v)))
                   ELSE data
        strip_msg(msg) ==
            LET m1 == strip_cc(msg) IN
            IF Has(m1, "content") /\ m1["content"].py = "list"
            THEN Put(m1, "content",
                     PyList([j \in 1..Len(m1["content"].v) |->
                                 strip_cc(m1["content"].v[j])]))
            ELSE m1
        d2 == IF ~Has(d1, "messages") THEN d1
              ELSE Put(d1, "messages",
                       [i \in 1..Len(d1["messages"]) |-> strip_msg(d1["messages"][i])])
        d3 == IF ~Has(d2, "tools") THEN d2
              ELSE Put(d2, "tools",
                       [i \in 1..Len(d2["tools"]) |-> strip_cc(d2["tools"][i])])
    IN d3

\* sanitize_for_zai(data, rid): the payload it returns
sanitize_for_zai(data) ==
    LET d1 == PopAll(data, UnsupportedKeys)
        d2 == IF Has(d1, "thinking") /\ Has(d1["thinking"], "budget_tokens")
              THEN Put(d1, "thinking", Pop(d1["thinking"], "budget_tokens"))
              ELSE d1
        d3 == Pop(d2, "extended_thinking")
        d4 == IF ~Has(d3, "tools") THEN d3
              ELSE LET kept == without_web_search(d3["tools"]) IN
                   IF kept = <<>>
                   THEN PopAll(d3, {"tools", "tool_choice"})
                   ELSE LET d4a == Put(d3, "tools", kept) IN
                        IF /\ Has(d4a, "tool_choice")
                           /\ d4a["tool_choice"].py = "dict"
                           /\ Get(d4a["tool_choice"].v, "name", "") = "web_search"
                        THEN Pop(d4a, "tool_choice")
                        ELSE d4a
    IN strip_cache_control(d4)

\* ZAI_TARGET_MODEL (env, default "glm-5")
ZAI_TARGET_MODEL == <<"g", "l", "m", "-", "5">>

\* json.loads(json.dumps(data, default=str)) on a parsed JSON body: every
\* object is rebuilt key by key and every array element by element; no value
\* of a parsed body needs default=str.
json_copy_blocks(blocks) == [j \in 1..Len(blocks) |-> [k \in DOMAIN blocks[j] |-> blocks[j][k]]]

json_roundtrip(data) ==
    [k \in DOMAIN data |->
        IF k = "messages"
        THEN [i \in 1..Len(data[k]) |->
                 [f \in DOMAIN data[k][i] |->
                     IF f = "content" /\ data[k][i][f].py = "list"
                     THEN PyList(json_copy_blocks(data[k][i][f].v))
                     ELSE data[k][i][f]]]
        ELSE IF k = "tools" THEN json_copy_blocks(data[k])
        ELSE IF k = "system" /\ data[k].py = "list"
        THEN PyList(json_copy_blocks(data[k].v))
        ELSE data[k]]

\* get_provider_config(model_name): the tier whose provider tuple it returns,
\* NoTier for None; base_urls is the set of tiers whose *_BASE_URL is set
get_provider_config(model_name, base_urls) ==
    LET tier == detect_tier(model_name) IN
    IF tier = "opus" THEN (IF "opus" \in base_urls THEN "opus" ELSE NoTier)
    ELSE IF tier = "sonnet" THEN (IF "sonnet" \in base_urls THEN "sonnet" ELSE NoTier)
    ELSE IF tier = "haiku" THEN (IF "haiku" \in base_urls THEN "haiku" ELSE NoTier)
    ELSE NoTier

(***************************************************************************)
(* What an upstream call yields: a response (status, and whether the body  *)
(* holds the marker "code":"500") or a raised exception.                   *)
(***************************************************************************)
\* 400 is in the status list of _is_zai_server_error, 404 and 429 are not
Responses ==
    {[kind |-> "response", status |-> st, marker |-> FALSE] : st \in {200, 400, 404, 429}}
    \cup
    {[kind |-> "response", status |-> st, marker |-> TRUE] : st \in {400, 404, 429}}

Exceptions ==
    {[kind |-> k, status |-> 0, marker |-> FALSE] :
        k \in {"ReadTimeout", "ConnectTimeout", "Exception"}}

Outcomes == Responses \cup Exceptions

\* _is_zai_server_error deciding on the status alone
is_zai_server_error_status_only(response) ==
    response.status \in {400, 500, 502, 503}

\* _is_zai_server_error(response)
is_zai_server_error(response) ==
    /\ response.status \in {400, 500, 502, 503}
    /\ response.marker

\* the streaming path never finding the marker in body_str
stream_body_has_marker_never(response) == FALSE

\* '"code":"500"' in body_str or '"code": "500"' in body_str (streaming path)
stream_body_has_marker(response) == response.marker

(***************************************************************************)
(* Headers are dicts from header name to value; a value is a tuple of      *)
(* pieces of text.  request.headers has lower-case names.                  *)
(***************************************************************************)
\* os.getenv of an *_API_KEY that is unset or empty: falsy
NoKey == <<>>

\* f"Bearer {api_key}"
Bearer(api_key) == <<"Bearer ">> \o api_key

\* _build_anthropic_headers(original_headers)
build_anthropic_headers(original_headers) ==
    LET copy(h, to, from) ==
            IF Has(original_headers, from)
            THEN Put(h, to, original_headers[from]) ELSE h
        h0 == Put(EmptyDict, "Content-Type", <<"application/json">>)
        h1 == copy(h0, "Authorization", "authorization")
        h2 == copy(h1, "anthropic-version", "anthropic-version")
        h3 == copy(h2, "anthropic-beta", "anthropic-beta")
    IN copy(h3, "x-api-key", "x-api-key")

\* the secondary's headers passing the client's credentials through when no
\* key is configured
zai_headers_passes_client_auth(api_key, original_headers) ==
    LET h0 == Put(EmptyDict, "Content-Type", <<"application/json">>)
        h1 == IF api_key # NoKey
              THEN Put(Put(h0, "Authorization", Bearer(api_key)),
                       "x-api-key", api_key)
              ELSE build_anthropic_headers(original_headers)
    IN IF Has(original_headers, "anthropic-version")
       THEN Put(h1, "anthropic-version", original_headers["anthropic-version"])
       ELSE h1

\* target_headers of the route to the secondary, for its api_key
zai_headers(api_key, original_headers) ==
    LET h0 == Put(EmptyDict, "Content-Type", <<"application/json">>)
        h1 == IF api_key # NoKey
              THEN Put(Put(h0, "Authorization", Bearer(api_key)),
                       "x-api-key", api_key)
              ELSE h0
    IN IF Has(original_headers, "anthropic-version")
       THEN Put(h1, "anthropic-version", original_headers["anthropic-version"])
       ELSE h1

\* target_headers["Accept"] = "text/event-stream"
accept_event_stream(headers) == Put(headers, "Accept", <<"text/event-stream">>)

(***************************************************************************)
(* The state of one inbound request: the locals of proxy_messages, the     *)
(* position of the handler (pc), and a record of what it has sent.         *)
(***************************************************************************)
Requests == {1, 2}

NoResp == [status |-> 0, src |-> "none", marker |-> FALSE, kind |-> "none"]

IdleReq ==
    [pc |-> "idle", received |-> EmptyDict, data |-> EmptyDict,
     original_data |-> EmptyDict, original_model |-> <<>>,
     is_streaming |-> FALSE, is_zai_route |-> FALSE, tier |-> NoTier,
     attempt |-> 0, seen_open |-> "notcalled", cb_reads |-> 0,
     first_target |-> "none",
     sec_sends |-> 0, pri_sends |-> 0, fb_calls |-> 0, after_fb |-> FALSE,
     pri_bodies |-> {}, resp |-> NoResp,
     relay |-> "none", stream_of |-> 0, fwd |-> 0, fwd_of |-> {},
     fell_through |-> FALSE,
     original_headers |-> EmptyDict, target_headers |-> EmptyDict,
     sent |-> {}]

\* the upstream calls the request has made so far; the last one is number
\* Calls(rq)
Calls(rq) == rq.sec_sends + rq.pri_sends + rq.fb_calls

\* client.post(target_url, json=data) / client.send(req, stream=True) begins
start_send(rq) ==
    LET headers == IF rq.is_streaming THEN accept_event_stream(rq.target_headers)
                   ELSE rq.target_headers
    IN
    [rq EXCEPT
        !.pc = "send",
        !.target_headers = headers,
        !.sent = @ \cup {<<IF rq.is_zai_route THEN "secondary" ELSE "primary",
                            headers>>},
        !.first_target = IF rq.first_target # "none" THEN rq.first_target
                         ELSE IF rq.is_zai_route THEN "secondary" ELSE "primary",
        !.sec_sends = IF rq.is_zai_route THEN @ + 1 ELSE @,
        !.pri_sends = IF rq.is_zai_route THEN @ ELSE @ + 1,
        !.after_fb = @ \/ rq.fb_calls > 0,
        !.pri_bodies = IF rq.is_zai_route THEN @ ELSE @ \cup {rq.data}]

\* a fallback call that sends the working payload: json=data
fallback_body_working(rq) == rq.data

\* the body of a fallback call: json=original_data
fallback_body(rq) == rq.original_data

\* fallback_headers of a fallback call: the one made from the streaming
\* branch adds Accept
fallback_headers(rq, pc) ==
    LET headers == build_anthropic_headers(rq.original_headers) IN
    IF pc = "fallback" /\ rq.is_streaming THEN accept_event_stream(headers)
    ELSE headers

\* a fallback call to ANTHROPIC_BASE_URL begins; pc says which one
start_fallback(rq, pc) ==
    [rq EXCEPT
        !.pc = pc,
        !.sent = @ \cup {<<"primary", fallback_headers(rq, pc)>>},
        !.fb_calls = @ + 1,
        !.pri_bodies = @ \cup {fallback_body(rq)}]

\* await asyncio.sleep(...) before the next attempt
sleep(rq) == [rq EXCEPT !.pc = "sleep"]

\* return Response(content=..., status_code=..., ...) of an upstream response
respond_upstream(rq, out, src) ==
    [rq EXCEPT
        !.pc = "done",
        !.resp = [status |-> out.status, src |-> src, marker |-> out.marker,
                  kind |-> "body"]]

\* return StreamingResponse(safe_stream_wrapper(...)): status 200
respond_stream(rq, out, src) ==
    [rq EXCEPT
        !.pc = "done",
        !.resp = [status |-> 200, src |-> src, marker |-> out.marker,
                  kind |-> "stream"],
        !.relay = "open",
        !.stream_of = Calls(rq)]

\* a proxy-made error answered with status 502 whatever the case
respond_error_bad_gateway(rq, status) ==
    [rq EXCEPT
        !.pc = "done",
        !.resp = [status |-> 502, src |-> "proxy", marker |-> FALSE,
                  kind |-> "json_error"]]

\* return JSONResponse(status_code=..., content={"error": ...})
respond_error(rq, status) ==
    [rq EXCEPT
        !.pc = "done",
        !.resp = [status |-> status, src |-> "proxy", marker |-> FALSE,
                  kind |-> "json_error"]]

\* the return after the loop:
\* JSONResponse(status_code=500, content={"error": "Max retries exceeded"})
respond_max_retries(rq) == [respond_error(rq, 500) EXCEPT !.fell_through = TRUE]

\* what one run of the handler does: the request after it, and the call it
\* made on the circuit breaker, if any
Eff(rq, call) == [rq |-> rq, call |-> call]

\* the except clauses with `except Exception` falling back to the primary
\* after the last attempt, as the read-timeout clause does
outer_except_exception_falls_back(rq, kind) ==
    IF kind = "ReadTimeout"
    THEN LET call == IF rq.is_zai_route /\ rq.tier # NoTier
                     THEN "record_failure" ELSE "none" IN
         IF rq.attempt < MAX_RETRIES - 1 THEN Eff(sleep(rq), call)
         ELSE IF rq.is_zai_route THEN Eff(start_fallback(rq, "fallbackT"), call)
         ELSE Eff(respond_error(rq, 504), call)
    ELSE IF kind = "ConnectTimeout"
    THEN IF rq.attempt < MAX_RETRIES - 1 THEN Eff(sleep(rq), "none")
         ELSE Eff(respond_error(rq, 504), "none")
    ELSE IF rq.attempt < MAX_RETRIES - 1 THEN Eff(sleep(rq), "none")
         ELSE IF rq.is_zai_route THEN Eff(start_fallback(rq, "fallbackT"), "none")
         ELSE Eff(respond_error(rq, 500), "none")

\* the except clauses of the retry loop (ReadTimeout, ConnectTimeout,
\* Exception) for an exception raised inside the outer try
outer_except(rq, kind) ==
    IF kind = "ReadTimeout"
    THEN LET call == IF rq.is_zai_route /\ rq.tier # NoTier
                     THEN "record_failure" ELSE "none" IN
         IF rq.attempt < MAX_RETRIES - 1 THEN Eff(sleep(rq), call)
         ELSE IF rq.is_zai_route THEN Eff(start_fallback(rq, "fallbackT"), call)
         ELSE Eff(respond_error(rq, 504), call)
    ELSE IF kind = "ConnectTimeout"
    THEN IF rq.attempt < MAX_RETRIES - 1 THEN Eff(sleep(rq), "none")
         ELSE Eff(respond_error(rq, 504), "none")
    ELSE IF rq.attempt < MAX_RETRIES - 1 THEN Eff(sleep(rq), "none")
         ELSE Eff(respond_error(rq, 500), "none")

\* the streaming branch of the loop body, from the outcome of client.send
recv_streaming(rq, out) ==
    LET src == IF rq.is_zai_route THEN "secondary" ELSE "primary" IN
    IF out.kind \in {"ReadTimeout", "ConnectTimeout"}
    THEN IF rq.attempt < MAX_RETRIES - 1 THEN Eff(sleep(rq), "none")
         ELSE Eff(respond_error(rq, 504), "none")
    ELSE IF out.kind = "Exception" THEN outer_except(rq, out.kind)
    ELSE IF out.status >= 400
    THEN IF rq.is_zai_route /\ stream_body_has_marker(out)
         THEN Eff(start_fallback(rq, "fallback"),
                  IF rq.tier # NoTier THEN "record_failure" ELSE "none")
         ELSE Eff(respond_upstream(rq, out, src), "none")
    ELSE Eff(respond_stream(rq, out, src),
             IF rq.is_zai_route /\ rq.tier # NoTier THEN "record_success"
             ELSE "none")

\* the non-streaming branch retrying 429 without `attempt < MAX_RETRIES - 1`
recv_buffered_429_always_retries(rq, out) ==
    LET src == IF rq.is_zai_route THEN "secondary" ELSE "primary" IN
    IF out.kind # "response" THEN outer_except(rq, out.kind)
    ELSE IF out.status = 429
    THEN Eff(sleep(rq), "none")
    ELSE IF out.status >= 400 /\ rq.is_zai_route /\ is_zai_server_error(out)
    THEN Eff(start_fallback(rq, "fallback"),
             IF rq.tier # NoTier THEN "record_failure" ELSE "none")
    ELSE Eff(respond_upstream(rq, out, src),
             IF out.status < 400 /\ rq.is_zai_route /\ rq.tier # NoTier
             THEN "record_success" ELSE "none")

\* the non-streaming branch returning a success without record_success
recv_buffered_no_success(rq, out) ==
    LET src == IF rq.is_zai_route THEN "secondary" ELSE "primary" IN
    IF out.kind # "response" THEN outer_except(rq, out.kind)
    ELSE IF out.status = 429 /\ rq.attempt < MAX_RETRIES - 1
    THEN Eff(sleep(rq), "none")
    ELSE IF out.status >= 400 /\ rq.is_zai_route /\ is_zai_server_error(out)
    THEN Eff(start_fallback(rq, "fallback"),
             IF rq.tier # NoTier THEN "record_failure" ELSE "none")
    ELSE Eff(respond_upstream(rq, out, src), "none")

\* the non-streaming branch of the loop body, from the outcome of client.post
recv_buffered(rq, out) ==
    LET src == IF rq.is_zai_route THEN "secondary" ELSE "primary" IN
    IF out.kind # "response" THEN outer_except(rq, out.kind)
    ELSE IF out.status = 429 /\ rq.attempt < MAX_RETRIES - 1
    THEN Eff(sleep(rq), "none")
    ELSE IF out.status >= 400 /\ rq.is_zai_route /\ is_zai_server_error(out)
    THEN Eff(start_fallback(rq, "fallback"),
             IF rq.tier # NoTier THEN "record_failure" ELSE "none")
    ELSE Eff(respond_upstream(rq, out, src),
             IF out.status < 400 /\ rq.is_zai_route /\ rq.tier # NoTier
             THEN "record_success" ELSE "none")

\* the outcome of the fallback call made after a marked secondary error
recv_fallback(rq, out) ==
    IF out.kind # "response" THEN outer_except(rq, out.kind)
    ELSE IF rq.is_streaming /\ out.status < 400
    THEN Eff(respond_stream(rq, out, "primary"), "none")
    ELSE Eff(respond_upstream(rq, out, "primary"), "none")

\* the outcome of the fallback call made after the last read timeout
recv_fallback_timeout(rq, out) ==
    IF out.kind # "response" THEN Eff(respond_error(rq, 504), "none")
    ELSE Eff(respond_upstream(rq, out, "primary"), "none")

\* original_data = json.loads(json.dumps(data, default=str)), as the handler
\* holds it once sanitize_for_zai has worked on data in place
snapshot(received, working) == json_roundtrip(received)

\* proxy_messages from the parsed body to the route: the request's locals,
\* and the circuit-breaker call made
route(body, base_urls, cb, t) ==
    LET original_model == Get(body, "model", <<>>)
        provider0 == get_provider_config(original_model, base_urls)
        reason == IF provider0 # NoTier THEN bypass_reason(body) ELSE "none"
        provider1 == IF reason # "none" THEN NoTier ELSE provider0
        tier == detect_tier(original_model)
        asks == provider1 # NoTier /\ tier # NoTier
        open == asks /\ is_open_ret(cb, tier, t)
        zai == provider1 # NoTier /\ ~open
        data == IF zai
                THEN sanitize_for_zai(Put(body, "model", ZAI_TARGET_MODEL))
                ELSE body
    IN Eff([IdleReq EXCEPT
                !.pc = "routed",
                !.received = body,
                !.data = data,
                !.original_data = snapshot(body, data),
                !.original_model = original_model,
                !.is_streaming = Get(body, "stream", FALSE),
                !.is_zai_route = zai,
                !.tier = tier,
                !.seen_open =
                    IF ~asks THEN "notcalled"
                    ELSE IF open THEN "open"
                    ELSE IF Has(cb.opened_at, tier) THEN "recovered"
                    ELSE "closed",
                !.cb_reads = IF asks THEN 1 ELSE 0],
           IF asks THEN "is_open" ELSE "none")

(***************************************************************************)
(* The request bodies clients send in the model.                           *)
(***************************************************************************)
S_other == <<"g", "p", "t">>

ModelNames == {S_sonnet, S_opus, S_other}

CacheControl == [type |-> "ephemeral"]

\* nothing the secondary cannot take, and fields the sanitizer removes
BodyPlain ==
    [messages |-> <<[role |-> "user",
                     content |-> PyList(<<[type |-> "text",
                                           cache_control |-> CacheControl]>>)]>>,
     metadata |-> [user_id |-> "u"],
     thinking |-> [type |-> "enabled", budget_tokens |-> 1024]]

\* an image block
BodyImage ==
    [messages |-> <<[role |-> "user",
                     content |-> PyList(<<[type |-> "image",
                                           source |-> [type |-> "base64"]]>>)]>>]

\* a web-search tool
BodyWebSearch ==
    [messages |-> <<[role |-> "user", content |-> PyStr("hi")]>>,
     tools |-> <<[type |-> "web_search_20250305", name |-> "web_search"]>>]

\* a forced tool choice
BodyForcedTool ==
    [messages |-> <<[role |-> "user", content |-> PyStr("hi")]>>,
     tools |-> <<[name |-> "calc", cache_control |-> CacheControl]>>,
     tool_choice |-> PyDict([type |-> "tool", name |-> "calc"])]

BodyShapes == {BodyPlain, BodyImage, BodyWebSearch, BodyForcedTool}

\* with "stream": true
Streamed(body) == Put(body, "stream", TRUE)

\* the bodies of the first request: every shape for a tier with a secondary,
\* a plain body for a tier without one and for a name of no tier
InboundFirst ==
    {Put(BodyPlain, "model", S_sonnet),
     Streamed(Put(BodyPlain, "model", S_sonnet)),
     Put(BodyImage, "model", S_sonnet),
     Streamed(Put(BodyWebSearch, "model", S_sonnet)),
     Put(BodyForcedTool, "model", S_sonnet),
     Put(BodyPlain, "model", S_opus),
     Streamed(Put(BodyPlain, "model", S_other))}

\* the bodies of the requests that run beside it
InboundNext ==
    {Put(BodyPlain, "model", S_sonnet), Streamed(Put(BodyPlain, "model", S_sonnet)),
     Put(BodyPlain, "model", S_haiku)}

Inbound(r) == IF r = 1 THEN InboundFirst ELSE InboundNext

\* the headers of a client that authenticates with OAuth
OAuthHeaders ==
    Put(Put(EmptyDict, "authorization", <<"Bearer ", "client-token">>),
        "anthropic-version", <<"2023-06-01">>)

\* every tier's *_API_KEY set, each to its own key
ConfiguredKeys == [t \in Tiers |-> <<"zk-", t>>]

\* the *_BASE_URL settings a run starts with
BaseUrlChoices == {{"sonnet", "haiku"}}

(***************************************************************************)
(* State.                                                                  *)
(*   circuit_breaker  the CircuitBreaker instance                          *)
(*   now              time.time()                                          *)
(*   base_urls        tiers whose *_BASE_URL is set                        *)
(*   api_keys         the *_API_KEY of each tier                           *)
(*   sem              free slots of each tier's semaphore                  *)
(*   waiters          requests waiting in `async with sem`, in order       *)
(*   reqs             the inbound requests                                 *)
(*   streak           record_failure calls per tier since the last         *)
(*                    record_success or recovery                           *)
(*   reached_at       the time streak reached the threshold                *)
(***************************************************************************)
VARIABLES circuit_breaker, now, base_urls, api_keys, sem, waiters, reqs, streak,
          reached_at

vars == <<circuit_breaker, now, base_urls, api_keys, sem, waiters, reqs, streak,
          reached_at>>

Init ==
    /\ circuit_breaker = [failures |-> EmptyDict, opened_at |-> EmptyDict]
    /\ now = 0
    /\ base_urls \in BaseUrlChoices
    /\ api_keys = ConfiguredKeys
    /\ sem = [t \in Tiers |-> MAX_CONCURRENT_REQUESTS]
    /\ waiters = [t \in Tiers |-> <<>>]
    /\ reqs = [r \in Requests |-> IdleReq]
    /\ streak = [t \in Tiers |-> 0]
    /\ reached_at = EmptyDict

\* the circuit breaker after the call a run of the handler made
breaker_after(call, tier) ==
    IF call = "is_open" THEN is_open_cb(circuit_breaker, tier, now)
    ELSE IF call = "record_failure" THEN record_failure(circuit_breaker, tier, now)
    ELSE IF call = "record_success" THEN record_success(circuit_breaker, tier)
    ELSE circuit_breaker

\* bookkeeping of the calls made on the breaker
Count(call, tier) ==
    LET resets == \/ call = "record_success"
                  \/ /\ call = "is_open"
                     /\ Has(circuit_breaker.opened_at, tier)
                     /\ ~is_open_ret(circuit_breaker, tier, now)
    IN
    IF call = "record_failure"
    THEN /\ streak' = [streak EXCEPT ![tier] = @ + 1]
         /\ reached_at' = IF streak[tier] + 1 = Threshold
                          THEN Put(reached_at, tier, now) ELSE reached_at
    ELSE IF resets
    THEN /\ streak' = [streak EXCEPT ![tier] = 0]
         /\ reached_at' = Pop(reached_at, tier)
    ELSE UNCHANGED <<streak, reached_at>>

\* the slot kept when the handler returns an error made by the proxy
Apply_leaks_slot_on_error(r, eff) ==
    LET rq == eff.rq IN
    /\ reqs' = [reqs EXCEPT ![r] = rq]
    /\ circuit_breaker' = breaker_after(eff.call, rq.tier)
    /\ Count(eff.call, rq.tier)
    /\ sem' = IF rq.pc = "done" /\ rq.is_zai_route /\ rq.resp.src # "proxy"
              THEN [sem EXCEPT ![rq.tier] = @ + 1] ELSE sem
    /\ UNCHANGED <<now, base_urls, api_keys, waiters>>

\* a run of the handler of request r ends in eff: the breaker call takes
\* effect, and `async with sem` releases the slot when the handler returned
Apply(r, eff) ==
    LET rq == eff.rq IN
    /\ reqs' = [reqs EXCEPT ![r] = rq]
    /\ circuit_breaker' = breaker_after(eff.call, rq.tier)
    /\ Count(eff.call, rq.tier)
    /\ sem' = IF rq.pc = "done" /\ rq.is_zai_route
              THEN [sem EXCEPT ![rq.tier] = @ + 1] ELSE sem
    /\ UNCHANGED <<now, base_urls, api_keys, waiters>>

\* original_headers = dict(request.headers), and target_headers of the
\* route the request resolved to
with_headers(rq, headers) ==
    [rq EXCEPT
        !.original_headers = headers,
        !.target_headers =
            IF rq.is_zai_route THEN zai_headers(api_keys[rq.tier], headers)
            ELSE build_anthropic_headers(headers)]

\* POST /v1/messages arrives with a body and headers: parse, snapshot,
\* route, then `async with sem` and the first send, or wait for a slot
Receive(r, body, headers) ==
    /\ reqs[r].pc = "idle"
    /\ \A q \in Requests : q < r => reqs[q].pc # "idle"
    /\ LET eff == route(body, base_urls, circuit_breaker, now)
           rq == with_headers(eff.rq, headers)
           free == sem[rq.tier] > 0 /\ waiters[rq.tier] = <<>>
       IN
       /\ circuit_breaker' = breaker_after(eff.call, rq.tier)
       /\ Count(eff.call, rq.tier)
       /\ IF ~rq.is_zai_route
          THEN /\ reqs' = [reqs EXCEPT ![r] = start_send(rq)]
               /\ UNCHANGED <<sem, waiters>>
          ELSE IF free
          THEN /\ reqs' = [reqs EXCEPT ![r] = start_send(rq)]
               /\ sem' = [sem EXCEPT ![rq.tier] = @ - 1]
               /\ UNCHANGED waiters
          ELSE /\ reqs' = [reqs EXCEPT ![r] = [rq EXCEPT !.pc = "wait"]]
               /\ waiters' = [waiters EXCEPT ![rq.tier] = Append(@, r)]
               /\ UNCHANGED sem
    /\ UNCHANGED <<now, base_urls, api_keys>>

\* the same from a client that authenticates with OAuth
Arrive(r, body) == Receive(r, body, OAuthHeaders)

\* a waiting request entering without a free slot
Acquire_without_slot(r) ==
    /\ reqs[r].pc = "wait"
    /\ LET t == reqs[r].tier IN
       /\ waiters[t] # <<>> /\ Head(waiters[t]) = r
       /\ sem' = [sem EXCEPT ![t] = @ - 1]
       /\ waiters' = [waiters EXCEPT ![t] = Tail(@)]
    /\ reqs' = [reqs EXCEPT ![r] = start_send(reqs[r])]
    /\ UNCHANGED <<circuit_breaker, now, base_urls, api_keys, streak, reached_at>>

\* a waiting request gets the slot a finished one released, and sends
Acquire(r) ==
    /\ reqs[r].pc = "wait"
    /\ LET t == reqs[r].tier IN
       /\ waiters[t] # <<>> /\ Head(waiters[t]) = r
       /\ sem[t] > 0
       /\ sem' = [sem EXCEPT ![t] = @ - 1]
       /\ waiters' = [waiters EXCEPT ![t] = Tail(@)]
    /\ reqs' = [reqs EXCEPT ![r] = start_send(reqs[r])]
    /\ UNCHANGED <<circuit_breaker, now, base_urls, api_keys, streak, reached_at>>

\* the upstream call of the retry loop returns or raises
Recv(r, out) ==
    /\ reqs[r].pc = "send"
    /\ Apply(r, IF reqs[r].is_streaming THEN recv_streaming(reqs[r], out)
                ELSE recv_buffered(reqs[r], out))

\* the next attempt asking the breaker again and going to the primary when
\* it is open
Wake_rereads_breaker(r) ==
    /\ reqs[r].pc = "sleep"
    /\ IF reqs[r].attempt + 1 < MAX_RETRIES
       THEN LET rq == reqs[r]
                asks == rq.is_zai_route /\ rq.tier # NoTier
                open == asks /\ is_open_ret(circuit_breaker, rq.tier, now)
            IN
            /\ reqs' = [reqs EXCEPT
                          ![r] = start_send([rq EXCEPT
                                    !.attempt = @ + 1,
                                    !.cb_reads = IF asks THEN @ + 1 ELSE @,
                                    !.is_zai_route = @ /\ ~open])]
            /\ UNCHANGED <<circuit_breaker, now, base_urls, api_keys, sem, waiters,
                           streak, reached_at>>
       ELSE Apply(r, Eff(respond_max_retries(reqs[r]), "none"))

\* asyncio.sleep returns: `continue`.  `for attempt in range(MAX_RETRIES)`
\* runs the next attempt, which sends, or is exhausted and the handler
\* returns after the loop
Wake(r) ==
    /\ reqs[r].pc = "sleep"
    /\ IF reqs[r].attempt + 1 < MAX_RETRIES
       THEN /\ reqs' = [reqs EXCEPT
                          ![r] = start_send([reqs[r] EXCEPT !.attempt = @ + 1])]
            /\ UNCHANGED <<circuit_breaker, now, base_urls, api_keys, sem, waiters,
                           streak, reached_at>>
       ELSE Apply(r, Eff(respond_max_retries(reqs[r]), "none"))

\* the fallback call made after a marked secondary error returns or raises
RecvFallback(r, out) ==
    /\ reqs[r].pc = "fallback"
    /\ Apply(r, recv_fallback(reqs[r], out))

\* the fallback call made after the last read timeout returns or raises
RecvFallbackTimeout(r, out) ==
    /\ reqs[r].pc = "fallbackT"
    /\ Apply(r, recv_fallback_timeout(reqs[r], out))

\* safe_stream_wrapper yields one chunk of the response it wraps
Chunk(r) ==
    /\ reqs[r].relay = "open"
    /\ reqs[r].fwd < MaxChunks
    /\ reqs' = [reqs EXCEPT ![r].fwd = @ + 1,
                             ![r].fwd_of = @ \cup {reqs[r].stream_of}]
    /\ UNCHANGED <<circuit_breaker, now, base_urls, api_keys, sem, waiters, streak, reached_at>>

\* the ways the wrapped stream stops: exhausted, or an error the wrapper logs
StreamStops == {"exhausted", "ReadTimeout", "NetworkError", "Exception"}

\* safe_stream_wrapper returns: the generator ends for the client
StreamEnd(r, how) ==
    /\ reqs[r].relay = "open"
    /\ how \in StreamStops
    /\ reqs' = [reqs EXCEPT ![r].relay = "ended"]
    /\ UNCHANGED <<circuit_breaker, now, base_urls, api_keys, sem, waiters, streak, reached_at>>

\* time passes
Tick ==
    /\ now < MaxTime
    /\ now' = now + 1
    /\ UNCHANGED <<circuit_breaker, base_urls, api_keys, sem, waiters, reqs, streak, reached_at>>

Next ==
    \/ \E r \in Requests : \E body \in Inbound(r) : Arrive(r, body)
    \/ \E r \in Requests : Acquire(r)
    \/ \E r \in Requests, out \in Outcomes : Recv(r, out)
    \/ \E r \in Requests : Wake(r)
    \/ \E r \in Requests, out \in Outcomes : RecvFallback(r, out)
    \/ \E r \in Requests, out \in Outcomes : RecvFallbackTimeout(r, out)
    \/ Tick

Spec == Init /\ [][Next]_vars

(***************************************************************************)
(* Two requests, with the scheduling of the event loop: an upstream call   *)
(* that was started returns or raises, a sleep ends, and the first waiter  *)
(* of a semaphore is woken when a slot is free.  Nothing forces a request  *)
(* to arrive.  The clock stands still: the handler's progress reads it     *)
(* only through is_open, whose two answers both occur without it (the      *)
(* breaker opens after Threshold failures).                                *)
(***************************************************************************)
\* both requests are of the tier sonnet, so they share a semaphore
FairInbound ==
    {Put(BodyPlain, "model", S_sonnet), Streamed(Put(BodyPlain, "model", S_sonnet))}

\* one outcome for each way an upstream call can end for the handler:
\* success, error passed through, marked error, rate limit, read timeout,
\* other exception
FairOutcomes ==
    {o \in Outcomes :
        \/ o.kind \in {"ReadTimeout", "Exception"}
        \/ o.kind = "response" /\ o.status \in {200, 404, 429} /\ ~o.marker
        \/ o.kind = "response" /\ o.status = 400 /\ o.marker}

NextFair ==
    \/ \E r \in Requests : \E body \in FairInbound : Arrive(r, body)
    \/ \E r \in Requests : Acquire(r)
    \/ \E r \in Requests, out \in FairOutcomes : Recv(r, out)
    \/ \E r \in Requests : Wake(r)
    \/ \E r \in Requests, out \in FairOutcomes : RecvFallback(r, out)
    \/ \E r \in Requests, out \in FairOutcomes : RecvFallbackTimeout(r, out)

Fairness ==
    \A r \in Requests :
        /\ WF_vars(Acquire(r))
        /\ WF_vars(\E out \in FairOutcomes : Recv(r, out))
        /\ WF_vars(Wake(r))
        /\ WF_vars(\E out \in FairOutcomes : RecvFallback(r, out))
        /\ WF_vars(\E out \in FairOutcomes : RecvFallbackTimeout(r, out))

SpecFair == Init /\ [][NextFair]_vars /\ Fairness

(***************************************************************************)
(* One request with a web-search tool, under every setting of the          *)
(* *_BASE_URL variables and with the breaker closed or open for a tier.    *)
(***************************************************************************)
\* a web-search tool after another tool
BodyWebSearchSecond ==
    [messages |-> <<[role |-> "user", content |-> PyStr("hi")]>>,
     tools |-> <<[name |-> "calc"],
                 [type |-> "web_search", name |-> "web_search"]>>,
     tool_choice |-> PyDict([type |-> "auto"])]

WebSearchInbound ==
    {Put(b, "model", m) :
        b \in {BodyWebSearch, Streamed(BodyWebSearch), BodyWebSearchSecond},
        m \in {S_sonnet, S_opus, S_haiku, ZAI_TARGET_MODEL, S_other}}

\* the breaker with no failure recorded, or opened at time 0 for one tier
BreakerStates ==
    {[failures |-> EmptyDict, opened_at |-> EmptyDict]}
    \cup {[failures |-> Put(EmptyDict, t, Threshold),
           opened_at |-> Put(EmptyDict, t, 0)] : t \in Tiers}

InitBypass ==
    /\ circuit_breaker \in BreakerStates
    /\ now = 0
    /\ base_urls \in SUBSET Tiers
    /\ api_keys = ConfiguredKeys
    /\ sem = [t \in Tiers |-> MAX_CONCURRENT_REQUESTS]
    /\ waiters = [t \in Tiers |-> <<>>]
    /\ reqs = [r \in Requests |-> IdleReq]
    /\ streak = [t \in Tiers |-> Get(circuit_breaker.failures, t, 0)]
    /\ reached_at = circuit_breaker.opened_at

NextBypass ==
    \/ \E body \in WebSearchInbound : Arrive(1, body)
    \/ \E out \in Outcomes : Recv(1, out)
    \/ Wake(1)
    \/ Tick

SpecBypass == InitBypass /\ [][NextBypass]_vars

(***************************************************************************)
(* One request of any shape, under every setting of the *_BASE_URL         *)
(* variables and with the breaker closed or open for a tier, from its      *)
(* arrival to the end of the relay of a streamed response.                 *)
(***************************************************************************)
NextOne ==
    \/ \E body \in InboundFirst \cup InboundNext : Arrive(1, body)
    \/ \E out \in Outcomes : Recv(1, out)
    \/ Wake(1)
    \/ \E out \in Outcomes : RecvFallback(1, out)
    \/ \E out \in Outcomes : RecvFallbackTimeout(1, out)
    \/ Chunk(1)
    \/ \E how \in StreamStops : StreamEnd(1, how)
    \/ Tick

SpecOne == InitBypass /\ [][NextOne]_vars

(***************************************************************************)
(* One request under every choice of the client's authorization and        *)
(* x-api-key headers, one of them equal to the secondary's own key, with   *)
(* the key of its tier set or missing, and the breaker closed or open.     *)
(***************************************************************************)
\* None for a header the client did not send
Absent == <<>>

AuthorizationChoices ==
    {Absent, <<"Bearer ", "client-token">>, Bearer(ConfiguredKeys["sonnet"])}

XApiKeyChoices == {Absent, <<"client-key">>, ConfiguredKeys["sonnet"]}

VersionChoices == {Absent, <<"2023-06-01">>}

BetaChoices == {Absent, <<"tools-beta">>}

\* dict(request.headers) of a request with these header values
HeadersOf(authorization, x_api_key, version, beta) ==
    LET set(h, name, value) == IF value = Absent THEN h ELSE Put(h, name, value)
        h0 == Put(EmptyDict, "content-type", <<"application/json">>)
        h1 == set(h0, "authorization", authorization)
        h2 == set(h1, "x-api-key", x_api_key)
        h3 == set(h2, "anthropic-version", version)
    IN set(h3, "anthropic-beta", beta)

HeaderChoices ==
    {HeadersOf(a, k, v, b) :
        a \in AuthorizationChoices, k \in XApiKeyChoices,
        v \in VersionChoices, b \in BetaChoices}

\* bodies that go to the secondary, streamed or not, and to the primary
HeaderInbound ==
    {Put(BodyPlain, "model", S_sonnet),
     Streamed(Put(BodyPlain, "model", S_sonnet)),
     Streamed(Put(BodyWebSearch, "model", S_sonnet)),
     Put(BodyPlain, "model", S_opus)}

\* the key of the tier sonnet set, or missing beside its base URL
KeyChoices == {ConfiguredKeys, [ConfiguredKeys EXCEPT !["sonnet"] = NoKey]}

InitHeaders ==
    /\ circuit_breaker \in BreakerStates
    /\ now = 0
    /\ base_urls \in BaseUrlChoices
    /\ api_keys \in KeyChoices
    /\ sem = [t \in Tiers |-> MAX_CONCURRENT_REQUESTS]
    /\ waiters = [t \in Tiers |-> <<>>]
    /\ reqs = [r \in Requests |-> IdleReq]
    /\ streak = [t \in Tiers |-> Get(circuit_breaker.failures, t, 0)]
    /\ reached_at = circuit_breaker.opened_at

NextHeaders ==
    \/ \E body \in HeaderInbound, headers \in HeaderChoices :
          Receive(1, body, headers)
    \/ \E out \in Outcomes : Recv(1, out)
    \/ Wake(1)
    \/ \E out \in Outcomes : RecvFallback(1, out)
    \/ \E out \in Outcomes : RecvFallbackTimeout(1, out)

SpecHeaders == InitHeaders /\ [][NextHeaders]_vars

(***************************************************************************)
(* One request whose model name is any string made of up to MaxPieces      *)
(* pieces: tier words in lower, upper and mixed case, halves of a tier     *)
(* word, the legacy prefix, and other text.                                *)
(***************************************************************************)
NamePieces ==
    {S_opus, <<"O", "P", "U", "S">>, <<"o", "p">>, <<"u", "s">>,
     S_sonnet, <<"S", "o", "n", "n", "e", "t">>, S_haiku,
     S_glm, <<"G", "L", "M">>, <<"-">>, <<"x">>}

RECURSIVE NamesOf(_)
NamesOf(n) ==
    IF n = 0 THEN {<<>>}
    ELSE LET shorter == NamesOf(n - 1) IN
         shorter \cup {p \o s : p \in NamePieces, s \in shorter}

ModelNamesUpTo == NamesOf(MaxPieces)

NextTier == \E name \in ModelNamesUpTo : Arrive(1, Put(BodyPlain, "model", name))

SpecTier == Init /\ [][NextTier]_vars

(***************************************************************************)
(* sanitize_for_zai applied, and applied again, to payloads built from the *)
(* fields it inspects.  A payload is the union of one choice per field;    *)
(* the choices of a field are listed in a tuple.                           *)
(***************************************************************************)
Merge(a, b) ==
    [k \in (DOMAIN a) \cup (DOMAIN b) |-> IF k \in DOMAIN b THEN b[k] ELSE a[k]]

ToolWebSearch == [type |-> "web_search_20250305", name |-> "web_search"]
ToolCalc == [name |-> "calc", cache_control |-> CacheControl]

UnsupportedChoices ==
    <<EmptyDict,
      [metadata |-> "m"],
      [metadata |-> "m", prompt_caching |-> "p", service_tier |-> "s",
       context_management |-> "c", output_config |-> "o"]>>

ThinkingChoices ==
    <<EmptyDict,
      [thinking |-> [type |-> "enabled"]],
      [thinking |-> [type |-> "enabled", budget_tokens |-> 1024]]>>

ExtendedThinkingChoices == <<EmptyDict, [extended_thinking |-> "on"]>>

ToolsChoices ==
    <<EmptyDict,
      [tools |-> <<>>],
      [tools |-> <<ToolWebSearch>>],
      [tools |-> <<ToolCalc>>],
      [tools |-> <<ToolWebSearch, ToolCalc>>],
      [tools |-> <<ToolCalc, ToolWebSearch, [type |-> "web_search"]>>]>>

ToolChoiceChoices ==
    <<EmptyDict,
      [tool_choice |-> PyStr("auto")],
      [tool_choice |-> PyDict([type |-> "auto"])],
      [tool_choice |-> PyDict([type |-> "tool", name |-> "web_search"])],
      [tool_choice |-> PyDict([type |-> "tool", name |-> "calc"])]>>

SystemChoices ==
    <<EmptyDict,
      [system |-> PyStr("s")],
      [system |-> PyDict([type |-> "text", cache_control |-> CacheControl])],
      [system |-> PyList(<<[type |-> "text", cache_control |-> CacheControl],
                           [type |-> "text"]>>)]>>

MessagesChoices ==
    <<EmptyDict,
      [messages |-> <<[role |-> "user", content |-> PyStr("hi")]>>],
      [messages |-> <<[role |-> "user", cache_control |-> CacheControl,
                       content |-> PyList(<<[type |-> "text",
                                             cache_control |-> CacheControl],
                                            [type |-> "text"]>>)],
                      [role |-> "assistant", content |-> PyStr("ok")]>>]>>

\* the payload made of one choice per field
SanitizerInput(u, th, et, tl, tc, sy, ms) ==
    Merge(Merge(Merge(Merge(Merge(Merge(UnsupportedChoices[u],
                                        ThinkingChoices[th]),
                                  ExtendedThinkingChoices[et]),
                            ToolsChoices[tl]),
                      ToolChoiceChoices[tc]),
                SystemChoices[sy]),
          MessagesChoices[ms])

InitSanitize ==
    /\ circuit_breaker = [failures |-> EmptyDict, opened_at |-> EmptyDict]
    /\ now = 0
    /\ base_urls \in BaseUrlChoices
    /\ api_keys = ConfiguredKeys
    /\ sem = [t \in Tiers |-> MAX_CONCURRENT_REQUESTS]
    /\ waiters = [t \in Tiers |-> <<>>]
    /\ \E u \in DOMAIN UnsupportedChoices, th \in DOMAIN ThinkingChoices,
          et \in DOMAIN ExtendedThinkingChoices, tl \in DOMAIN ToolsChoices,
          tc \in DOMAIN ToolChoiceChoices, sy \in DOMAIN SystemChoices,
          ms \in DOMAIN MessagesChoices :
          LET x == SanitizerInput(u, th, et, tl, tc, sy, ms) IN
          reqs = [r \in Requests |->
                     IF r = 1 THEN [IdleReq EXCEPT !.received = x, !.data = x]
                     ELSE IdleReq]
    /\ streak = [t \in Tiers |-> 0]
    /\ reached_at = EmptyDict

\* data = sanitize_for_zai(data, rid), on the payload and then on its result
SanitizeData ==
    /\ reqs[1].pc \in {"idle", "sanitized"}
    /\ reqs' = [reqs EXCEPT
                   ![1].data = sanitize_for_zai(@),
                   ![1].pc = IF @ = "idle" THEN "sanitized" ELSE "resanitized"]
    /\ UNCHANGED <<circuit_breaker, now, base_urls, api_keys, sem, waiters, streak, reached_at>>

SpecSanitize == InitSanitize /\ [][SanitizeData]_vars
(***************************************************************************)
(* Properties.                                                             *)
(***************************************************************************)
TimeoutOutcomes == {o \in Exceptions : o.kind \in {"ReadTimeout", "ConnectTimeout"}}

\* a failed call: an error status, or an exception
FailureOutcomes == {o \in Outcomes : o.kind # "response" \/ o.status >= 400}

\* the compatibility predicates, none of which fires
compatible(body) ==
    /\ ~has_web_search(body)
    /\ ~has_image_content(body)
    /\ ~has_forced_tool_choice(body)

\* C1: the first upstream target of a request is the secondary exactly when
\* its model name maps to a tier, that tier has a secondary base address, no
\* compatibility predicate fires and is_open(tier) returned false at the
\* route decision; otherwise it is the primary.
C1_FirstTarget ==
    \A r \in Requests :
        LET rq == reqs[r]
            tier == detect_tier(Get(rq.received, "model", <<>>))
            secondary == /\ tier # NoTier
                         /\ tier \in base_urls
                         /\ compatible(rq.received)
                         /\ rq.seen_open \in {"closed", "recovered"}
        IN
        /\ rq.first_target # "none" =>
              rq.first_target = IF secondary THEN "secondary" ELSE "primary"
        /\ rq.pc = "wait" => secondary

\* C1 witness: one request went to the secondary first, another one of a
\* configured tier found the breaker open and went to the primary
C1_Witness ==
    \E r, q \in Requests :
        /\ reqs[r].first_target = "secondary"
        /\ reqs[q].seen_open = "open" /\ reqs[q].first_target = "primary"

\* C2: every body sent to the primary provider, on the direct route and on
\* every fallback, equals the body received from the client (model name not
\* rewritten, nothing sanitized).
C2_PrimaryBodyIntact ==
    \A r \in Requests : \A b \in reqs[r].pri_bodies : b = reqs[r].received

\* C2 witness: a fallback call was made by a request whose working payload
\* had been rewritten and sanitized
C2_Witness ==
    \E r \in Requests :
        /\ reqs[r].fb_calls > 0
        /\ reqs[r].data # reqs[r].received
        /\ reqs[r].received \in reqs[r].pri_bodies

\* C3: a failed call to the primary provider (direct or fallback) leaves the
\* failure count and opened_at of every tier unchanged and starts no
\* fallback call to the primary.
C3_PrimaryFailureFrame ==
    [][\A r \in Requests : \A o \in FailureOutcomes :
          (\/ RecvFallback(r, o)
           \/ RecvFallbackTimeout(r, o)
           \/ (~reqs[r].is_zai_route /\ Recv(r, o)))
          => /\ circuit_breaker' = circuit_breaker
             /\ reqs'[r].fb_calls = reqs[r].fb_calls]_vars

\* C4: a request makes at most MAX_RETRIES sends to the secondary, at most one
\* fallback call to the primary, and no send after a fallback call.
C4_SendBounds ==
    \A r \in Requests :
        /\ reqs[r].sec_sends <= MAX_RETRIES
        /\ reqs[r].fb_calls <= 1
        /\ ~reqs[r].after_fb
\* C5: streaming or not, read or connect timeout: a send that times out is
\* retried while attempts remain; after the last attempt a request whose
\* target was the secondary makes one call to the primary with the original
\* payload and returns its response, and a request whose target was the
\* primary, or whose fallback call raises, gets 504 with a JSON error body.
C5_TimeoutPolicy ==
    [][\A r \in Requests :
          /\ \A o \in TimeoutOutcomes :
                Recv(r, o) =>
                    IF reqs[r].attempt < MAX_RETRIES - 1
                    THEN reqs'[r].pc = "sleep"
                    ELSE IF reqs[r].is_zai_route
                    THEN /\ reqs'[r].pc = "fallbackT"
                         /\ reqs'[r].fb_calls = reqs[r].fb_calls + 1
                         /\ reqs[r].received \in reqs'[r].pri_bodies
                    ELSE /\ reqs'[r].pc = "done"
                         /\ reqs'[r].resp.status = 504
                         /\ reqs'[r].resp.kind = "json_error"
          /\ \A o \in Outcomes :
                RecvFallbackTimeout(r, o) =>
                    /\ reqs'[r].pc = "done"
                    /\ IF o.kind = "response"
                       THEN /\ reqs'[r].resp.status = o.status
                            /\ reqs'[r].resp.src = "primary"
                       ELSE /\ reqs'[r].resp.status = 504
                            /\ reqs'[r].resp.kind = "json_error"]_vars

\* C6: a send to the secondary, streaming or not, that returns any status
\* >= 400 with the marker in its body records exactly one failure for the
\* tier and makes exactly one call to the primary with the original payload;
\* the client then receives the primary's response, never the secondary's.
C6_MarkedErrorFallsBack ==
    [][\A r \in Requests :
          /\ \A o \in {x \in Responses : x.status >= 400 /\ x.marker} :
                (reqs[r].is_zai_route /\ Recv(r, o)) =>
                    /\ streak'[reqs[r].tier] = streak[reqs[r].tier] + 1
                    /\ reqs'[r].pc = "fallback"
                    /\ reqs'[r].fb_calls = reqs[r].fb_calls + 1
                    /\ reqs[r].received \in reqs'[r].pri_bodies
          /\ \A o \in Outcomes :
                RecvFallback(r, o) =>
                    /\ reqs'[r].pc = "done"
                    /\ reqs'[r].resp.src = "primary"
                    /\ streak' = streak]_vars

\* C7: streaming or not, a send that returns 429 is retried while attempts
\* remain; a 429 on the last attempt is returned to the client unchanged,
\* with no fallback and no effect on the circuit breaker.
C7_RateLimitPolicy ==
    [][\A r \in Requests : \A o \in {x \in Responses : x.status = 429} :
          Recv(r, o) =>
              /\ circuit_breaker' = circuit_breaker
              /\ reqs'[r].fb_calls = reqs[r].fb_calls
              /\ IF reqs[r].attempt < MAX_RETRIES - 1
                 THEN reqs'[r].pc = "sleep"
                 ELSE /\ reqs'[r].pc = "done"
                      /\ reqs'[r].resp.status = 429
                      /\ reqs'[r].resp.marker = o.marker
                      /\ reqs'[r].resp.kind = "body"]_vars

\* C8: a send of the retry loop that returns a status >= 400 other than 429
\* without the marker is answered with that status and body at once: the
\* send is not retried, no call to the primary is made, and the failure
\* count and opened_at of every tier are unchanged.
C8_PassThrough ==
    [][\A r \in Requests :
          \A o \in {x \in Responses : x.status >= 400 /\ x.status # 429 /\ ~x.marker} :
              Recv(r, o) =>
                  /\ reqs'[r].pc = "done"
                  /\ reqs'[r].resp =
                        [status |-> o.status,
                         src |-> reqs[r].first_target,
                         marker |-> FALSE, kind |-> "body"]
                  /\ reqs'[r].fb_calls = reqs[r].fb_calls
                  /\ reqs'[r].sec_sends = reqs[r].sec_sends
                  /\ reqs'[r].pri_sends = reqs[r].pri_sends
                  /\ circuit_breaker' = circuit_breaker]_vars

\* C8 witness: the secondary's unmarked error was passed through after a
\* single send, with no failure recorded
C8_Witness ==
    \E r \in Requests :
        /\ reqs[r].pc = "done"
        /\ reqs[r].resp.src = "secondary"
        /\ reqs[r].resp.status \in {400, 404}
        /\ ~reqs[r].resp.marker
        /\ reqs[r].sec_sends = 1 /\ reqs[r].fb_calls = 0
        /\ streak[reqs[r].tier] = 0

\* C9: from count 0 and closed, is_open(tier) is false after fewer than
\* threshold record_failure calls and true after threshold of them with no
\* record_success in between (asked before the recovery time has elapsed);
\* a record_success sets the count to 0, so threshold further failures are
\* needed.  streak counts the calls since the last success or recovery.
C9_OpensAtThreshold ==
    \A t \in Tiers :
        /\ Get(circuit_breaker.failures, t, 0) = streak[t]
        /\ streak[t] < Threshold => ~is_open_ret(circuit_breaker, t, now)
        /\ (streak[t] >= Threshold /\ now - reached_at[t] < RecoveryTime)
              => is_open_ret(circuit_breaker, t, now)

\* C9 witness: the threshold-th failure in a row has just opened a breaker
\* whose count had been set back to 0 by a success
C9_Witness ==
    \E t \in Tiers :
        /\ streak[t] = Threshold
        /\ is_open_ret(circuit_breaker, t, now)
        /\ \E r \in Requests :
              /\ reqs[r].tier = t /\ reqs[r].pc = "done"
              /\ reqs[r].resp.src = "secondary" /\ reqs[r].resp.status < 400

\* a request of tier t gets a response with status < 400 from the secondary
\* in this step (the handler calls record_success(t))
SecondarySuccess(t) ==
    \E r \in Requests :
        /\ reqs[r].pc = "send" /\ reqs[r].is_zai_route /\ reqs[r].tier = t
        /\ reqs'[r].pc = "done"
        /\ reqs'[r].resp.src = "secondary" /\ reqs'[r].resp.status < 400

\* the is_open call of a route decision found the recovery time elapsed
RecoveredBy(r) ==
    /\ reqs[r].pc = "idle" /\ reqs'[r].pc # "idle"
    /\ reqs'[r].seen_open = "recovered"

\* a fallback call of the request raised into the retry loop (see C3)
FallbackRaised(rq) ==
    \/ rq.fb_calls >= 1 /\ rq.pc = "sleep"
    \/ rq.after_fb
    \/ rq.fb_calls >= 2

RecoveryElapsed(cb, t, time) ==
    Has(cb.opened_at, t) /\ time - cb.opened_at[t] >= RecoveryTime

\* the is_open check of a route decision that finds the recovery time elapsed
\* reports closed and resets the failure count and opened_at together
ResetTogether ==
    \A r \in Requests :
        LET t == reqs'[r].tier IN
        (/\ reqs[r].pc = "idle" /\ reqs'[r].pc # "idle"
         /\ reqs'[r].seen_open # "notcalled"
         /\ RecoveryElapsed(circuit_breaker, t, now))
        => /\ reqs'[r].seen_open = "recovered"
           /\ reqs'[r].is_zai_route
           /\ Get(circuit_breaker'.failures, t, 0) = 0
           /\ ~Has(circuit_breaker'.opened_at, t)

\* C11: in every reachable state and for every tier, opened_at is set if and
\* only if the failure count is >= threshold and less than recovery_time has
\* elapsed since opened_at; when recovery elapses, the count and opened_at
\* are reset together in the same is_open check that reports closed.
C11_OpenedIffCountAndWindow ==
    /\ [](\A t \in Tiers :
            Has(circuit_breaker.opened_at, t)
            <=> /\ Get(circuit_breaker.failures, t, 0) >= Threshold
                /\ Has(circuit_breaker.opened_at, t)
                /\ now - circuit_breaker.opened_at[t] < RecoveryTime)
    /\ [][ResetTogether]_vars

\* C11 as amended: opened_at is set if and only if the failure count is
\* >= threshold; it stays set after recovery_time has elapsed, until the next
\* is_open check for the tier, which reports closed and resets the count and
\* opened_at together; is_open reports open exactly while opened_at is set
\* and less than recovery_time has elapsed.
C11_OpenedIffCount ==
    /\ [](\A t \in Tiers :
            /\ Has(circuit_breaker.opened_at, t)
               <=> Get(circuit_breaker.failures, t, 0) >= Threshold
            /\ is_open_ret(circuit_breaker, t, now)
               <=> (Has(circuit_breaker.opened_at, t)
                    /\ ~RecoveryElapsed(circuit_breaker, t, now)))
    /\ [][ResetTogether]_vars

\* C11 witness: recovery_time has elapsed for an open breaker that no is_open
\* check has visited since: opened_at is still set, the count still >= threshold
C11_Witness ==
    \E t \in Tiers :
        /\ RecoveryElapsed(circuit_breaker, t, now)
        /\ Get(circuit_breaker.failures, t, 0) >= Threshold

\* threshold failures have been recorded for tier t with no recorded success
\* since, and less than recovery_time has elapsed since the last of them
OpenedAndInWindow(t) ==
    /\ streak[t] >= Threshold
    /\ Has(reached_at, t)
    /\ now - reached_at[t] < RecoveryTime

\* C12: after threshold failures recorded for a tier with no recorded success
\* in between, a request of that tier whose route decision happens before
\* recovery_time has elapsed is sent to the primary with the body it came
\* with (original model name) and never makes a send to the secondary.
C12_OpenBreakerBypasses ==
    /\ [][\A r \in Requests : \A body \in Inbound(r) :
             LET t == detect_tier(Get(body, "model", <<>>)) IN
             (Arrive(r, body) /\ t # NoTier /\ OpenedAndInWindow(t))
             => /\ ~reqs'[r].is_zai_route
                /\ reqs'[r].pc = "send"
                /\ reqs'[r].first_target = "primary"
                /\ reqs'[r].pri_bodies = {body}
                /\ reqs'[r].pri_bodies # {}
                /\ \A b \in reqs'[r].pri_bodies :
                       Get(b, "model", <<>>) = reqs'[r].original_model
                /\ circuit_breaker' = circuit_breaker]_vars
    /\ [](\A r \in Requests :
            ~reqs[r].is_zai_route =>
                /\ reqs[r].sec_sends = 0
                /\ reqs[r].pc \notin {"wait", "fallback", "fallbackT"})
    /\ [][\A r \in Requests :
             reqs[r].pc # "idle" => reqs'[r].is_zai_route = reqs[r].is_zai_route]_vars

\* C12 witness: a request of a configured tier, with nothing the secondary
\* cannot take, found the breaker open and was answered by the primary
\* without a send to the secondary
C12_Witness ==
    \E r \in Requests :
        /\ reqs[r].seen_open = "open"
        /\ compatible(reqs[r].received)
        /\ reqs[r].pc = "done"
        /\ reqs[r].resp.src = "primary"
        /\ reqs[r].sec_sends = 0 /\ reqs[r].pri_sends >= 1
        /\ streak[reqs[r].tier] >= Threshold

\* C13: a request whose tools list holds a web-search tool is never sent to
\* the secondary, whatever its tier, the secondary configuration and the
\* state of the breaker: every send goes to the primary, it never waits for
\* a secondary slot and makes no fallback call.
C13_WebSearchOnlyPrimary ==
    \A r \in Requests :
        (reqs[r].pc # "idle" /\ has_web_search(reqs[r].received)) =>
            /\ ~reqs[r].is_zai_route
            /\ reqs[r].sec_sends = 0
            /\ reqs[r].first_target = "primary"
            /\ reqs[r].pri_sends = reqs[r].attempt + 1
            /\ reqs[r].pc \in {"send", "sleep", "done"}
            /\ reqs[r].resp.src \in {"none", "primary", "proxy"}

\* C13 witness: a web-search request of a tier with a secondary configured
\* and a closed breaker was answered by the primary after a retry
C13_Witness ==
    \E r \in Requests :
        /\ has_web_search(reqs[r].received)
        /\ reqs[r].tier \in base_urls
        /\ ~Has(circuit_breaker.opened_at, reqs[r].tier)
        /\ reqs[r].pc = "done" /\ reqs[r].resp.src = "primary"
        /\ reqs[r].pri_sends = MAX_RETRIES

\* the counters of the upstream calls of a request, and its position
Progress(rq) == <<rq.pc, rq.attempt, rq.sec_sends, rq.pri_sends, rq.fb_calls>>

\* C14: for a streaming request the decision to retry or fall back is made
\* before any chunk is forwarded: chunks are forwarded only once the handler
\* has returned the stream, after the first chunk no upstream send, retry or
\* fallback happens, all chunks come from one upstream response (the last
\* call made), and the step that rejects a secondary stream with the marker
\* forwards and returns nothing of it.
C14_DecideBeforeRelay ==
    /\ [](\A r \in Requests :
            /\ reqs[r].relay # "none" =>
                  /\ reqs[r].is_streaming
                  /\ reqs[r].pc = "done"
                  /\ reqs[r].resp.kind = "stream"
                  /\ reqs[r].stream_of = Calls(reqs[r])
            /\ reqs[r].relay = "none" => reqs[r].fwd = 0
            /\ reqs[r].fwd > 0 => reqs[r].fwd_of = {reqs[r].stream_of}
            /\ reqs[r].fwd = 0 => reqs[r].fwd_of = {})
    /\ [][\A r \in Requests :
             reqs[r].relay # "none" => Progress(reqs'[r]) = Progress(reqs[r])]_vars
    /\ [][\A r \in Requests :
             \A o \in {x \in Responses : x.status >= 400 /\ x.marker} :
                (reqs[r].is_streaming /\ reqs[r].is_zai_route /\ Recv(r, o))
                => /\ reqs'[r].pc = "fallback"
                   /\ reqs'[r].resp = NoResp
                   /\ reqs'[r].relay = "none"
                   /\ reqs'[r].fwd = 0]_vars

\* C14 witness: a secondary stream was rejected with the marker, the
\* fallback stream of the primary was opened and two of its chunks forwarded
C14_Witness ==
    \E r \in Requests :
        /\ reqs[r].is_streaming /\ reqs[r].is_zai_route
        /\ reqs[r].sec_sends = 1 /\ reqs[r].fb_calls = 1
        /\ reqs[r].resp.src = "primary"
        /\ reqs[r].fwd = 2 /\ reqs[r].fwd_of = {2}

\* the requests of tier t routed to the secondary that are inside
\* `async with sem`: sending, sleeping before a retry, or in a fallback call
InsideLimiter(t) ==
    {r \in Requests :
        /\ reqs[r].is_zai_route /\ reqs[r].tier = t
        /\ reqs[r].pc \in {"send", "sleep", "fallback", "fallbackT"}}

\* C15: under every interleaving, the requests of one tier that are inside
\* the limiter-guarded section with the secondary as target never number
\* more than MAX_CONCURRENT_REQUESTS; each holds one slot of the tier.
C15_LimiterCap ==
    \A t \in Tiers :
        /\ Cardinality(InsideLimiter(t)) <= MAX_CONCURRENT_REQUESTS
        /\ sem[t] = MAX_CONCURRENT_REQUESTS - Cardinality(InsideLimiter(t))

\* C15 witness: every slot of a tier is taken and another request of the
\* tier, routed to the secondary, waits for one
C15_Witness ==
    \E t \in Tiers : \E r \in Requests :
        /\ Cardinality(InsideLimiter(t)) = MAX_CONCURRENT_REQUESTS
        /\ reqs[r].pc = "wait" /\ reqs[r].tier = t /\ reqs[r].is_zai_route
        /\ waiters[t] = <<r>>

\* the response resp answers the upstream outcome o: it carries the status
\* of o (200 when o is relayed as an event stream), or it is an error made
\* by the proxy, 500 or 504 with a JSON error body
AnswersOutcome(resp, o) ==
    \/ /\ resp.src = "proxy"
       /\ resp.kind = "json_error"
       /\ resp.status \in {500, 504}
    \/ /\ resp.src \in {"primary", "secondary"}
       /\ o.kind = "response"
       /\ \/ resp.kind = "body" /\ resp.status = o.status
          \/ resp.kind = "stream" /\ resp.status = 200 /\ o.status < 400

\* the upstream call request r was waiting for ends with outcome o
Returned(r, o) == Recv(r, o) \/ RecvFallback(r, o) \/ RecvFallbackTimeout(r, o)

\* C16: every response returned has the status of an upstream response the
\* handler received (200 for a relayed event stream) or is made by the proxy
\* with status 500 or 504 and a JSON error body; nothing else is returned.
C16_StatusOrigin ==
    /\ [](\A r \in Requests :
            IF reqs[r].pc = "done"
            THEN \/ /\ reqs[r].resp.src = "proxy"
                    /\ reqs[r].resp.kind = "json_error"
                    /\ reqs[r].resp.status \in {500, 504}
                 \/ /\ reqs[r].resp.src \in {"primary", "secondary"}
                    /\ reqs[r].resp.kind \in {"body", "stream"}
                    /\ reqs[r].resp.status \in {x.status : x \in Responses}
            ELSE reqs[r].resp = NoResp)
    /\ [][\A r \in Requests :
             (reqs[r].pc # "done" /\ reqs'[r].pc = "done")
             => /\ \E o \in Outcomes : Returned(r, o)
                /\ \A o \in Outcomes :
                      Returned(r, o) => AnswersOutcome(reqs'[r].resp, o)]_vars

\* C16 witness: the request got an error made by the proxy, 504, after the
\* fallback call that followed its last read timeout raised
C16_Witness ==
    \E r \in Requests :
        /\ reqs[r].pc = "done" /\ reqs[r].resp.src = "proxy"
        /\ reqs[r].resp.status = 504 /\ reqs[r].resp.kind = "json_error"
        /\ reqs[r].fb_calls = 1 /\ reqs[r].sec_sends = MAX_RETRIES

\* the word w stands in the string m at some position
HasWord(m, w) ==
    \E i \in 1..Len(m) :
        /\ i + Len(w) - 1 <= Len(m)
        /\ \A j \in 1..Len(w) : m[i + j - 1] = w[j]

\* the string m begins with the word w
BeginsWith(m, w) ==
    /\ Len(w) <= Len(m)
    /\ \A j \in 1..Len(w) : m[j] = w[j]

\* the tier the priority opus > sonnet > haiku > legacy prefix > none gives
\* the lowercase string m
TierByPriority(m) ==
    IF HasWord(m, S_opus) THEN "opus"
    ELSE IF HasWord(m, S_sonnet) THEN "sonnet"
    ELSE IF HasWord(m, S_haiku) THEN "haiku"
    ELSE IF BeginsWith(m, S_glm) THEN "sonnet"
    ELSE NoTier

\* C17: the tier of a request depends only on the lowercased model name and
\* follows the priority opus > sonnet > haiku > legacy prefix > none: a name
\* containing 'opus' maps to opus whatever else it contains, else one
\* containing 'sonnet' to sonnet, else one containing 'haiku' to haiku, else
\* one starting with 'glm' to sonnet, otherwise to none.
C17_TierPriority ==
    \A r \in Requests :
        reqs[r].pc # "idle" =>
            LET name == Get(reqs[r].received, "model", <<>>) IN
            /\ reqs[r].tier = TierByPriority(Lower(name))
            /\ reqs[r].tier = detect_tier(Lower(name))

\* C17 witness: a name with 'opus' in upper case after 'sonnet' was given
\* the tier opus
C17_Witness ==
    \E r \in Requests :
        LET name == Get(reqs[r].received, "model", <<>>) IN
        /\ reqs[r].pc # "idle"
        /\ name # Lower(name)
        /\ HasWord(Lower(name), S_sonnet)
        /\ ~HasWord(name, S_opus)
        /\ reqs[r].tier = "opus"

\* C18: sanitization is idempotent: for every payload x built from the
\* fields the sanitizer inspects, sanitize(sanitize(x)) equals sanitize(x).
C18_SanitizeIdempotent ==
    /\ reqs[1].pc = "sanitized" => reqs[1].data = sanitize_for_zai(reqs[1].received)
    /\ reqs[1].pc = "resanitized" => reqs[1].data = sanitize_for_zai(reqs[1].received)

\* C18 witness: sanitized twice, a payload from which the first pass took a
\* web-search tool, a tool_choice naming it, cache_control and budget_tokens
C18_Witness ==
    /\ reqs[1].pc = "resanitized"
    /\ has_web_search(reqs[1].received)
    /\ Has(reqs[1].data, "tools") /\ ~has_web_search(reqs[1].data)
    /\ Has(reqs[1].received, "tool_choice") /\ ~Has(reqs[1].data, "tool_choice")
    /\ Has(reqs[1].received, "thinking")
    /\ Has(reqs[1].received["thinking"], "budget_tokens")
    /\ ~Has(reqs[1].data["thinking"], "budget_tokens")
    /\ reqs[1].data # reqs[1].received

\* the handler of request r runs from the parsed body to its route, and on
\* to the first send or the wait for a slot
Routes(r) == reqs[r].pc = "idle" /\ reqs'[r].pc # "idle"

\* C19: deciding the route of a request has no side effect: the routing
\* rules, the circuit-breaker read included, leave the failure count and
\* opened_at of every tier unchanged.
C19_RouteIsPure ==
    [][\A r \in Requests : Routes(r) => circuit_breaker' = circuit_breaker]_vars

\* C19 as amended: deciding the route leaves the failure count and opened_at
\* of every tier unchanged, except when the circuit-breaker read finds
\* recovery_time elapsed for the request's tier: it then sets that tier's
\* count to 0 and clears its opened_at, and leaves the other tiers alone.
\* Apart from that the breaker changes only when an upstream call of a
\* request returns or raises.
C19_RouteResetsOnlyOnRecovery ==
    /\ [][\A r \in Requests :
             Routes(r) =>
                LET t == reqs'[r].tier IN
                IF reqs'[r].seen_open # "notcalled"
                   /\ RecoveryElapsed(circuit_breaker, t, now)
                THEN /\ reqs'[r].seen_open = "recovered"
                     /\ circuit_breaker' =
                           [failures |-> Put(circuit_breaker.failures, t, 0),
                            opened_at |-> Pop(circuit_breaker.opened_at, t)]
                ELSE /\ reqs'[r].seen_open # "recovered"
                     /\ circuit_breaker' = circuit_breaker]_vars
    /\ [][circuit_breaker' # circuit_breaker =>
             \E r \in Requests :
                /\ reqs'[r] # reqs[r]
                /\ reqs[r].pc \in {"idle", "send", "fallback"}]_vars

\* C19 witness: a route decision read a breaker whose recovery time had
\* elapsed, the request went to the secondary and got its response, and the
\* count of the tier starts again from 0
C19_Witness ==
    \E r \in Requests :
        /\ reqs[r].seen_open = "recovered"
        /\ reqs[r].pc = "done"
        /\ reqs[r].resp.src = "secondary" /\ reqs[r].resp.status = 404
        /\ Get(circuit_breaker.failures, reqs[r].tier, 1) = 0
        /\ ~Has(circuit_breaker.opened_at, reqs[r].tier)

\* an upstream response with status < 400
SuccessResponses == {o \in Responses : o.status < 400}

\* C20: every response of the secondary with status < 400 causes
\* record_success(tier) in the step that returns it, before anything is
\* forwarded (for a stream: no chunk forwarded yet): the tier's count is 0
\* and its opened_at cleared, the other tiers untouched; a response of the
\* primary, direct or fallback, never causes record_success.
C20_SuccessRecorded ==
    /\ [][\A r \in Requests : \A o \in SuccessResponses :
             (reqs[r].is_zai_route /\ Recv(r, o)) =>
                LET t == reqs[r].tier IN
                /\ reqs'[r].pc = "done"
                /\ reqs'[r].resp.src = "secondary"
                /\ reqs'[r].fwd = 0
                /\ Get(circuit_breaker'.failures, t, 0) = 0
                /\ ~Has(circuit_breaker'.opened_at, t)
                /\ streak'[t] = 0
                /\ \A u \in Tiers \ {t} :
                      /\ Get(circuit_breaker'.failures, u, 0)
                            = Get(circuit_breaker.failures, u, 0)
                      /\ Has(circuit_breaker'.opened_at, u)
                            = Has(circuit_breaker.opened_at, u)]_vars
    /\ [][\A r \in Requests : \A o \in Responses :
             (\/ RecvFallback(r, o)
              \/ RecvFallbackTimeout(r, o)
              \/ (~reqs[r].is_zai_route /\ Recv(r, o)))
             => /\ circuit_breaker' = circuit_breaker
                /\ streak' = streak]_vars
    /\ [](\A r \in Requests :
            reqs[r].fwd > 0 => reqs[r].pc = "done")

\* C20 witness: after a failed attempt the secondary answered 200 on the
\* retry; the tier's count is back to 0 and the response is returned
C20_Witness ==
    \E r \in Requests :
        /\ reqs[r].is_zai_route /\ ~reqs[r].is_streaming
        /\ reqs[r].attempt = 1 /\ reqs[r].sec_sends = 2 /\ reqs[r].fb_calls = 0
        /\ reqs[r].pc = "done"
        /\ reqs[r].resp.src = "secondary" /\ reqs[r].resp.status = 200
        /\ Has(circuit_breaker.failures, reqs[r].tier)
        /\ circuit_breaker.failures[reqs[r].tier] = 0

\* a step in which record_failure(t) is called
FailureRecorded(t) == streak'[t] = streak[t] + 1

\* C21: while opened_at of a tier is set, further record_failure calls add
\* one to the failure count and never change opened_at; opened_at is set
\* only by the record_failure call that brings the count to the threshold,
\* to the time of that call, so under interleaved failures of concurrent
\* requests the window is measured from the failure that reached the
\* threshold.
C21_OpensOncePerEpisode ==
    /\ [][\A t \in Tiers :
             (FailureRecorded(t) /\ Has(circuit_breaker.opened_at, t))
             => /\ Has(circuit_breaker'.opened_at, t)
                /\ circuit_breaker'.opened_at[t] = circuit_breaker.opened_at[t]
                /\ circuit_breaker'.failures[t] = circuit_breaker.failures[t] + 1]_vars
    /\ [][\A t \in Tiers :
             (~Has(circuit_breaker.opened_at, t) /\ Has(circuit_breaker'.opened_at, t))
             => /\ FailureRecorded(t)
                /\ circuit_breaker'.failures[t] = Threshold
                /\ circuit_breaker'.opened_at[t] = now]_vars
    /\ [][\A t \in Tiers :
             (Has(circuit_breaker.opened_at, t) /\ Has(circuit_breaker'.opened_at, t))
             => circuit_breaker'.opened_at[t] = circuit_breaker.opened_at[t]]_vars
    /\ [](\A t \in Tiers :
            Has(circuit_breaker.opened_at, t) =>
                /\ Has(reached_at, t)
                /\ circuit_breaker.opened_at[t] = reached_at[t])

\* C21 witness: two requests of one tier sent to the secondary, the breaker
\* opened at time 0, and a failure recorded beyond the threshold at a later
\* time with opened_at still 0
C21_Witness ==
    \E t \in Tiers :
        /\ Has(circuit_breaker.opened_at, t)
        /\ circuit_breaker.opened_at[t] = 0 /\ now > 0
        /\ circuit_breaker.failures[t] > Threshold
        /\ \A r \in Requests :
              reqs[r].tier = t /\ reqs[r].is_zai_route /\ reqs[r].sec_sends >= 1

\* an exception that is neither a read timeout nor a connect timeout
OtherExceptions == {o \in Exceptions : o.kind = "Exception"}

\* C22: a send that raises an exception other than a read or connect
\* timeout is retried after a backoff sleep while attempts remain (the next
\* attempt sends to the same target); when the last of the MAX_RETRIES
\* attempts raises too, the client gets 500 with a JSON error body.  No
\* fallback call is made and the breaker is not touched.
C22_UnexpectedErrorPolicy ==
    /\ [][\A r \in Requests : \A o \in OtherExceptions :
             Recv(r, o) =>
                /\ reqs'[r].fb_calls = reqs[r].fb_calls
                /\ reqs'[r].sec_sends = reqs[r].sec_sends
                /\ reqs'[r].pri_sends = reqs[r].pri_sends
                /\ circuit_breaker' = circuit_breaker
                /\ IF reqs[r].attempt < MAX_RETRIES - 1
                   THEN /\ reqs'[r].pc = "sleep"
                        /\ reqs'[r].resp = NoResp
                   ELSE /\ reqs'[r].pc = "done"
                        /\ reqs'[r].resp =
                              [status |-> 500, src |-> "proxy", marker |-> FALSE,
                               kind |-> "json_error"]]_vars
    /\ [][\A r \in Requests :
             Wake(r) =>
                /\ reqs'[r].pc = "send"
                /\ reqs'[r].attempt = reqs[r].attempt + 1
                /\ reqs'[r].fb_calls = reqs[r].fb_calls
                /\ IF reqs[r].is_zai_route
                   THEN /\ reqs'[r].sec_sends = reqs[r].sec_sends + 1
                        /\ reqs'[r].pri_sends = reqs[r].pri_sends
                   ELSE /\ reqs'[r].pri_sends = reqs[r].pri_sends + 1
                        /\ reqs'[r].sec_sends = reqs[r].sec_sends]_vars
    /\ [](\A r \in Requests : reqs[r].attempt <= MAX_RETRIES - 1)

\* C22 witness: every one of the MAX_RETRIES sends to the secondary raised;
\* the client got 500 from the proxy, no fallback call was made and no
\* failure recorded
C22_Witness ==
    \E r \in Requests :
        /\ reqs[r].pc = "done"
        /\ reqs[r].resp.status = 500 /\ reqs[r].resp.src = "proxy"
        /\ reqs[r].is_zai_route
        /\ reqs[r].sec_sends = MAX_RETRIES /\ reqs[r].fb_calls = 0
        /\ Get(circuit_breaker.failures, reqs[r].tier, 0) = 0

\* C23: with MAX_RETRIES >= 1 every iteration of the retry loop returns a
\* response or continues only when attempt < MAX_RETRIES - 1, so the loop
\* never falls through: no request gets the 500 'Max retries exceeded'.
C23_LoopNeverFallsThrough ==
    \A r \in Requests :
        /\ ~reqs[r].fell_through
        /\ reqs[r].pc = "sleep" => reqs[r].attempt < MAX_RETRIES - 1
        /\ reqs[r].pc = "send" => reqs[r].attempt < MAX_RETRIES

\* C23 witness: a request rate-limited on every attempt slept before each
\* retry and got the 429 of its last attempt, returned from inside the loop
C23_Witness ==
    MAX_RETRIES >= 1 /\
    \E r \in Requests :
        /\ reqs[r].pc = "done"
        /\ reqs[r].attempt = MAX_RETRIES - 1
        /\ reqs[r].pri_sends + reqs[r].sec_sends = MAX_RETRIES
        /\ reqs[r].fb_calls = 0
        /\ reqs[r].resp.status = 429 /\ reqs[r].resp.kind = "body"

\* request r is inside `async with sem` of its tier's semaphore
HoldsSlot(rq) ==
    rq.is_zai_route /\ rq.pc \in {"send", "sleep", "fallback", "fallbackT"}

\* C24: every upstream call returning or raising, every request that arrived
\* eventually returns a response; a request holds its slot from its first
\* send through backoff sleeps and fallback calls, the slot is free again
\* once it has returned, by whatever path, and no request waits for a slot
\* forever.
C24_ReturnsAndReleases ==
    /\ \A r \in Requests : (reqs[r].pc # "idle") ~> (reqs[r].pc = "done")
    /\ \A r \in Requests : (reqs[r].pc = "wait") ~> HoldsSlot(reqs[r])
    /\ [](\A t \in Tiers :
            sem[t] = MAX_CONCURRENT_REQUESTS
                     - Cardinality({r \in Requests :
                                       reqs[r].tier = t /\ HoldsSlot(reqs[r])}))
    /\ [][\A r \in Requests :
             (HoldsSlot(reqs[r]) /\ reqs'[r].pc # "done")
             => /\ HoldsSlot(reqs'[r])
                /\ reqs'[r] # reqs[r] => sem' = sem]_vars

\* C24 witness: one request sleeps before a retry with the only slot of its
\* tier while the other waits for it
C24_Witness ==
    \E r, q \in Requests :
        /\ reqs[r].pc = "sleep" /\ reqs[r].is_zai_route
        /\ reqs[q].pc = "wait" /\ reqs[q].tier = reqs[r].tier
        /\ sem[reqs[r].tier] = 0

\* the route decision of the request reaches the breaker test of
\* `provider_config and tier and circuit_breaker.is_open(tier)`: its tier
\* has a secondary and nothing in the payload sends it to the primary
ReachesBreaker(rq) ==
    /\ get_provider_config(rq.original_model, base_urls) # NoTier
    /\ bypass_reason(rq.received) = "none"
    /\ detect_tier(rq.original_model) # NoTier

\* once routed a request never reads the breaker again and keeps its route:
\* the steps that take it from the wait for a slot or from a backoff sleep
\* to its next send leave the breaker alone and send to the secondary when
\* the request resolved to it
NoReadAfterRoute ==
    /\ [][\A r \in Requests :
             ~Routes(r) => /\ reqs'[r].cb_reads = reqs[r].cb_reads
                           /\ reqs'[r].is_zai_route = reqs[r].is_zai_route]_vars
    /\ [][\A r \in Requests :
             (reqs[r].pc \in {"wait", "sleep"} /\ reqs'[r] # reqs[r])
             => /\ circuit_breaker' = circuit_breaker
                /\ (reqs[r].is_zai_route /\ reqs'[r].pc = "send")
                   => /\ reqs'[r].sec_sends = reqs[r].sec_sends + 1
                      /\ reqs'[r].pri_sends = reqs[r].pri_sends]_vars

\* C25: the circuit breaker is read exactly once per request, at the route
\* decision and before the slot is acquired, and not again before a retry:
\* a request that resolved to the secondary sends each of its attempts to
\* the secondary even when the breaker opens while it waits or between its
\* attempts.
C25_ReadExactlyOnce ==
    /\ [][\A r \in Requests : Routes(r) => reqs'[r].cb_reads = 1]_vars
    /\ NoReadAfterRoute

\* C25 as amended: the circuit breaker is read at most once per request, at
\* the route decision and before the slot is acquired: once when the
\* request's tier has a secondary and its payload does not force the
\* primary, and not at all otherwise.  It is not read again before a retry:
\* a request that resolved to the secondary sends each of its attempts to
\* the secondary even when the breaker opens while it waits or between its
\* attempts.
C25_ReadOnceWhenSecondaryCandidate ==
    /\ [][\A r \in Requests :
             Routes(r)
             => reqs'[r].cb_reads = IF ReachesBreaker(reqs'[r]) THEN 1 ELSE 0]_vars
    /\ NoReadAfterRoute

\* C25 witness: a request that read the breaker closed is on its second
\* send to the secondary while the breaker is open for its tier, after the
\* other request of the tier, which held the slot, fell back and returned
C25_Witness ==
    \E r, q \in Requests :
        /\ reqs[r].pc = "send" /\ reqs[r].attempt >= 1
        /\ reqs[r].is_zai_route /\ reqs[r].sec_sends = reqs[r].attempt + 1
        /\ reqs[r].cb_reads = 1 /\ reqs[r].seen_open = "closed"
        /\ is_open_ret(circuit_breaker, reqs[r].tier, now)
        /\ reqs[q].pc = "done" /\ reqs[q].tier = reqs[r].tier
        /\ reqs[q].is_zai_route /\ reqs[q].fb_calls = 1

\* the names under which a request carries a credential
CredentialNames == {"Authorization", "authorization", "x-api-key"}

\* the credentials among the headers of a send
Credentials(headers) ==
    [n \in (DOMAIN headers) \cap CredentialNames |-> headers[n]]

\* the credential values the client sent
ClientCredentials(rq) ==
    {rq.original_headers[n] :
        n \in (DOMAIN rq.original_headers) \cap CredentialNames}

\* the credential values made of the secondary key of the request's tier
SecondaryCredentials(rq) ==
    IF rq.tier = NoTier \/ api_keys[rq.tier] = NoKey THEN {}
    ELSE {api_keys[rq.tier], Bearer(api_keys[rq.tier])}

\* C26: credentials never cross providers: every send to the secondary
\* carries only the configured key of the tier, as Authorization bearer and
\* as x-api-key (no credential when no key is configured), and none of its
\* headers holds a credential of the client; every send to the primary,
\* direct or fallback, carries exactly the client's own authorization and
\* x-api-key headers, and none of its headers holds the secondary key.  (A
\* value the client sent that equals the secondary key is the client's.)
C26_CredentialsNeverCross ==
    \A r \in Requests : \A s \in reqs[r].sent :
        LET rq == reqs[r]
            headers == s[2]
        IN
        IF s[1] = "secondary"
        THEN /\ Credentials(headers) =
                    IF api_keys[rq.tier] = NoKey THEN EmptyDict
                    ELSE Put(Put(EmptyDict, "Authorization",
                                 Bearer(api_keys[rq.tier])),
                             "x-api-key", api_keys[rq.tier])
             /\ \A n \in DOMAIN headers :
                    headers[n] \in ClientCredentials(rq)
                    => headers[n] \in SecondaryCredentials(rq)
        ELSE /\ Has(headers, "Authorization") = Has(rq.original_headers, "authorization")
             /\ Has(headers, "x-api-key") = Has(rq.original_headers, "x-api-key")
             /\ ~Has(headers, "authorization")
             /\ \A n \in (DOMAIN headers) \cap CredentialNames :
                    headers[n] = IF n = "Authorization"
                                 THEN rq.original_headers["authorization"]
                                 ELSE rq.original_headers[n]
             /\ \A n \in DOMAIN headers :
                    headers[n] \in SecondaryCredentials(rq)
                    => headers[n] \in ClientCredentials(rq)

\* C26 witness: a request whose client sent an authorization and an
\* x-api-key header, neither equal to the sonnet key, sent to the secondary
\* with the sonnet key and then fell back to the primary with the client's
\* headers
C26_Witness ==
    \E r \in Requests :
        LET rq == reqs[r] IN
        /\ rq.pc = "fallback" /\ rq.tier = "sonnet"
        /\ api_keys["sonnet"] # NoKey
        /\ Cardinality(ClientCredentials(rq)) = 2
        /\ ClientCredentials(rq) \cap SecondaryCredentials(rq) = {}
        /\ \E s \in rq.sent :
              /\ s[1] = "secondary"
              /\ s[2]["Authorization"] = Bearer(api_keys["sonnet"])
              /\ s[2]["x-api-key"] = api_keys["sonnet"]
        /\ \E s \in rq.sent :
              /\ s[1] = "primary"
              /\ s[2]["Authorization"] = rq.original_headers["authorization"]
              /\ s[2]["x-api-key"] = rq.original_headers["x-api-key"]
====
